---- MODULE Spec2Model ----
(***************************************************************************)
(* Leader election of rs-raft (src/src/server.rs): a cluster of Server     *)
(* actors, each with a State behind a tokio Mutex, a bounded mpsc command  *)
(* channel, the `start` dispatch loop, and the two spawned handlers        *)
(* `request_vote` (an election round) and `process_vote_request`.          *)
(***************************************************************************)
EXTENDS Integers, Sequences, FiniteSets, TLC

\* ---------------------------------------------------------------- bounds
NumNodes == 3          \* servers that can be constructed: ids 0..NumNodes-1
MaxCommands == 3       \* commands the environment sends in total

\* ------------------------------------------------------- program constants
ChannelCap == 32       \* mpsc::channel(32)

Node == 0 .. (NumNodes - 1)

\* Option<i64>: None is the empty set, Some(id) the singleton {id}.
None == {}
Some(id) == {id}

Follower == "Follower"
Candidate == "Candidate"
Leader == "Leader"

\* Mutant: a new server starts in term 1.
NewStateTermOne == [election_state |-> "Follower", current_term |-> 1, voted_for |-> {}]

\* State after Server::new.
NewState == [election_state |-> Follower, current_term |-> 0, voted_for |-> None]

\* ------------------------------------------------------------- topologies
\* The peer lists (Server.nodes) given to the servers by add_nodes before
\* they are started; read-only afterwards.
Star(k) == [n \in Node |-> IF n = 0 THEN [i \in 1 .. k |-> i] ELSE << >>]
Others(n, k) == [i \in 1 .. (k - 1) |-> IF i <= n THEN i - 1 ELSE i]
Mesh(k) == [n \in Node |-> IF n < k THEN Others(n, k) ELSE << >>]
Dup == [n \in Node |-> IF n = 0 THEN <<1, 1>> ELSE << >>]
Fork == [n \in Node |-> IF n \in {0, 1} THEN <<2>> ELSE << >>]

\* Sizes of the fully connected clusters among the topologies.
MeshSizes == {2, 3}

Topologies ==
    {[servers |-> 0 .. k, nodes |-> Star(k)] : k \in 0 .. (NumNodes - 1)}
    \cup {[servers |-> 0 .. (k - 1), nodes |-> Mesh(k)] : k \in MeshSizes}
    \cup {[servers |-> {0, 1}, nodes |-> Dup]}
    \cup {[servers |-> {0, 1, 2}, nodes |-> Fork]}

VARIABLES
    servers,       \* ids of the servers that were constructed and started
    nodes,         \* nodes[n]: Server.nodes of n, a sequence of peer ids
    state,         \* state[n]: the State behind n's Mutex
    mailbox,       \* mailbox[n]: commands queued in n's mpsc channel
    alive,         \* alive[n]: n's `start` loop still owns its Receiver
    rv_waiting,    \* rv_waiting[n]: spawned request_vote tasks awaiting the lock
    vote_waiting,  \* vote_waiting[n]: spawned Vote tasks awaiting the lock
    round,         \* round[n]: the request_vote task that holds n's lock
    granted,       \* history: granted[n] = {<<term, candidate>>} n voted for
    last,          \* history: the last handler step that ran
    sent           \* commands sent by the environment so far

vars == <<servers, nodes, state, mailbox, alive, rv_waiting, vote_waiting,
          round, granted, last, sent>>

\* ------------------------------------------------------ response channels
\* One oneshot channel per peer slot of a round.
NoChan == [st |-> "none", term |-> 0, vote_granted |-> FALSE]
Pending == [st |-> "pending", term |-> 0, vote_granted |-> FALSE]
Closed == [st |-> "err", term |-> 0, vote_granted |-> FALSE]
Ready(resp) == [st |-> "ok", term |-> resp.term, vote_granted |-> resp.vote_granted]
Taken(ch) == [ch EXCEPT !.st = IF ch.st = "ok" THEN "okTaken" ELSE "errTaken"]

IdleRound == [pc |-> "idle", term |-> 0, voted |-> 0, sent |-> 0,
              outcome |-> "none", resp |-> << >>]

\* Mutant: the guard is dropped before the awaits.
LockedNever(n) == FALSE

\* The MutexGuard taken by request_vote lives until the function returns.
Locked(n) == round[n].pc # "idle"

NoCall == [op |-> "none", node |-> 0, slot |-> 0, pre |-> NewState,
           request |-> [term |-> 0, candidate_id |-> 0],
           resp |-> [term |-> 0, vote_granted |-> FALSE]]

Init ==
    /\ \E t \in Topologies : servers = t.servers /\ nodes = t.nodes
    /\ state = [n \in Node |-> NewState]
    /\ mailbox = [n \in Node |-> << >>]
    /\ alive = [n \in Node |-> TRUE]
    /\ rv_waiting = [n \in Node |-> 0]
    /\ vote_waiting = [n \in Node |-> {}]
    /\ round = [n \in Node |-> IdleRound]
    /\ granted = [n \in Node |-> {}]
    /\ last = NoCall
    /\ sent = [rv |-> 0, sd |-> 0]

\* --------------------------------------------------- vote adjudication
\* The locals of process_vote_request next to the locked State.
VoteLocals(st) == [state |-> st, vote_granted |-> FALSE, term |-> 0]

\* Mutant: a stale request is answered with its own term.
StaleBranchEchoesTerm(v, req) ==
    IF req.term < v.state.current_term
    THEN [v EXCEPT !.term = req.term, !.vote_granted = FALSE]
    ELSE v

\* if vote_request.term < self_state.current_term { ... }
StaleBranch(v, req) ==
    IF req.term < v.state.current_term
    THEN [v EXCEPT !.term = v.state.current_term, !.vote_granted = FALSE]
    ELSE v

\* Mutant: the same-term branch grants without looking at voted_for.
SameTermBranchGrantsAny(v, req) ==
    IF req.term = v.state.current_term
    THEN [v EXCEPT !.state.voted_for = Some(req.candidate_id),
                   !.state.current_term = req.term,
                   !.vote_granted = TRUE,
                   !.term = req.term]
    ELSE v

\* Mutant: the same-term branch denies whenever a vote is already recorded.
SameTermBranchDeniesRepeat(v, req) ==
    IF req.term = v.state.current_term
    THEN IF v.state.voted_for # None
         THEN [v EXCEPT !.vote_granted = FALSE]
         ELSE [v EXCEPT !.state.voted_for = Some(req.candidate_id),
                        !.state.current_term = req.term,
                        !.vote_granted = TRUE,
                        !.term = req.term]
    ELSE v

\* if vote_request.term == self_state.current_term { match voted_for ... }
SameTermBranch(v, req) ==
    IF req.term = v.state.current_term
    THEN IF v.state.voted_for # None
         THEN IF req.candidate_id \in v.state.voted_for
              THEN [v EXCEPT !.vote_granted = TRUE, !.term = req.term]
              ELSE [v EXCEPT !.vote_granted = FALSE]
         ELSE [v EXCEPT !.state.voted_for = Some(req.candidate_id),
                        !.state.current_term = req.term,
                        !.vote_granted = TRUE,
                        !.term = req.term]
    ELSE v

\* Mutant: the newer term is adopted and granted, the vote is not recorded.
NewerTermBranchKeepsVote(v, req) ==
    IF req.term > v.state.current_term
    THEN [v EXCEPT !.state.current_term = req.term,
                   !.vote_granted = TRUE,
                   !.term = req.term]
    ELSE v

\* if vote_request.term > self_state.current_term { ... }
NewerTermBranch(v, req) ==
    IF req.term > v.state.current_term
    THEN [v EXCEPT !.state.voted_for = Some(req.candidate_id),
                   !.state.current_term = req.term,
                   !.vote_granted = TRUE,
                   !.term = req.term]
    ELSE v

\* process_vote_request: the three ifs in sequence, then the VoteResponse.
process_vote_request(st, req) ==
    LET v == NewerTermBranch(SameTermBranch(StaleBranch(VoteLocals(st), req), req), req)
    IN  [state |-> v.state,
         resp |-> [term |-> v.term, vote_granted |-> v.vote_granted]]

\* ---------------------------------------------------------- election round
\* Mutant: the self-vote is not recorded.
BeginCampaignNoSelfVote(st, id) ==
    [election_state |-> Candidate,
     current_term |-> st.current_term + 1,
     voted_for |-> st.voted_for]

\* request_vote, after the lock: become Candidate, bump the term, self-vote.
BeginCampaign(st, id) ==
    [election_state |-> Candidate,
     current_term |-> st.current_term + 1,
     voted_for |-> Some(id)]

\* Mutant: `!=` in place of `>`.
HigherTermNeq(resp, st) == resp.term # st.current_term

\* if vote_response.term > self_state.current_term
HigherTerm(resp, st) == resp.term > st.current_term

\* Mutant: the term is adopted but the role is left alone.
StepDownNoDemote(st, resp) == [st EXCEPT !.current_term = resp.term]

\* ... { election_state = Follower; current_term = vote_response.term; return }
StepDown(st, resp) ==
    [st EXCEPT !.election_state = Follower, !.current_term = resp.term]

\* Mutant: a denial resets the counter.
TallyResetsOnDeny(voted, resp) == IF resp.vote_granted THEN voted + 1 ELSE 0

\* if vote_response.vote_granted { voted += 1 }
Tally(voted, resp) == IF resp.vote_granted THEN voted + 1 ELSE voted

\* Mutant: a closed reply channel is counted as a grant.
ErrArmCountsGrant(voted) == voted + 1

\* Err(_) => {}
ErrArm(voted) == voted

\* Mutant: `>` in place of `>=`.
QuorumStrict(voted, n) == voted > n \div 2

\* voted >= nodes.len() / 2
Quorum(voted, n) == voted >= n \div 2

\* Mutant: the round always ends as Leader.
ConcludeAlways(st, voted, n) == [st EXCEPT !.election_state = Leader]

\* if voted >= nodes.len() / 2 { election_state = Leader }
Conclude(st, voted, n) ==
    IF Quorum(voted, n) THEN [st EXCEPT !.election_state = Leader] ELSE st

Outcome(voted, n) == IF Quorum(voted, n) THEN "won" ELSE "lost"

AllTaken(resp) == \A s \in DOMAIN resp : resp[s].st \in {"okTaken", "errTaken"}

Cmd(type) == [type |-> type, term |-> 0, candidate_id |-> 0, slot |-> 0]
VoteCmd(req, slot) ==
    [type |-> "Vote", term |-> req.term, candidate_id |-> req.candidate_id,
     slot |-> slot]

\* The receiving half of slot s of c's round for `term` is still held.
Awaited(c, term, s) ==
    /\ round[c].pc # "idle"
    /\ round[c].term = term
    /\ s \in DOMAIN round[c].resp
    /\ round[c].resp[s].st = "pending"

\* ------------------------------------------------------------ environment
\* tx.send(Command::RequestVote {}) by whatever triggers an election.
SendRequestVote(n) ==
    /\ n \in servers /\ alive[n]
    /\ sent.rv + sent.sd < MaxCommands
    /\ Len(mailbox[n]) < ChannelCap
    /\ mailbox' = [mailbox EXCEPT ![n] = Append(@, Cmd("RequestVote"))]
    /\ sent' = [sent EXCEPT !.rv = @ + 1]
    /\ UNCHANGED <<servers, nodes, state, alive, rv_waiting, vote_waiting,
                   round, granted, last>>

\* tx.send(Command::ShutDown {}).
SendShutDown(n) ==
    /\ n \in servers /\ alive[n]
    /\ sent.rv + sent.sd < MaxCommands
    /\ Len(mailbox[n]) < ChannelCap
    /\ mailbox' = [mailbox EXCEPT ![n] = Append(@, Cmd("ShutDown"))]
    /\ sent' = [sent EXCEPT !.sd = @ + 1]
    /\ UNCHANGED <<servers, nodes, state, alive, rv_waiting, vote_waiting,
                   round, granted, last>>

\* ------------------------------------------------------------- start loop
\* Commands still queued when the Receiver is dropped are dropped with their
\* oneshot senders: the awaiting rounds see Err on those slots.
DropQueued(msgs) ==
    [c \in Node |->
        [round[c] EXCEPT !.resp =
            [s \in DOMAIN round[c].resp |->
                IF /\ Awaited(c, round[c].term, s)
                   /\ \E i \in DOMAIN msgs :
                        msgs[i] = VoteCmd([term |-> round[c].term,
                                           candidate_id |-> c], s)
                THEN Closed
                ELSE round[c].resp[s]]]]

\* One iteration of `loop { match rx.recv().await ... }`.
start(n) ==
    /\ n \in servers /\ alive[n]
    /\ mailbox[n] # << >>
    /\ LET cmd == Head(mailbox[n]) IN
         CASE cmd.type = "RequestVote" ->
                /\ rv_waiting' = [rv_waiting EXCEPT ![n] = @ + 1]
                /\ mailbox' = [mailbox EXCEPT ![n] = Tail(@)]
                /\ UNCHANGED <<vote_waiting, alive, round>>
           [] cmd.type = "Vote" ->
                /\ vote_waiting' = [vote_waiting EXCEPT ![n] = @ \cup
                      {[term |-> cmd.term, candidate_id |-> cmd.candidate_id,
                        slot |-> cmd.slot]}]
                /\ mailbox' = [mailbox EXCEPT ![n] = Tail(@)]
                /\ UNCHANGED <<rv_waiting, alive, round>>
           [] cmd.type = "ShutDown" ->
                /\ alive' = [alive EXCEPT ![n] = FALSE]
                /\ mailbox' = [mailbox EXCEPT ![n] = << >>]
                /\ round' = DropQueued(Tail(mailbox[n]))
                /\ UNCHANGED <<rv_waiting, vote_waiting>>
    /\ UNCHANGED <<servers, nodes, state, granted, last, sent>>

\* ----------------------------------------------------------- request_vote
\* lock().await, the three assignments, and (with no peers) both loops and
\* the final quorum test, which then run without any await.
RoundStart(n) ==
    /\ n \in servers
    /\ rv_waiting[n] > 0
    /\ ~Locked(n)
    /\ LET st == BeginCampaign(state[n], n)
           N == Len(nodes[n])
       IN  /\ rv_waiting' = [rv_waiting EXCEPT ![n] = @ - 1]
           /\ granted' = [granted EXCEPT ![n] = @ \cup {<<st.current_term, n>>}]
           /\ IF N = 0
              THEN /\ state' = [state EXCEPT ![n] = Conclude(st, 0, N)]
                   /\ round' = [round EXCEPT ![n] =
                         [pc |-> "idle", term |-> st.current_term, voted |-> 0,
                          sent |-> 0, outcome |-> Outcome(0, N), resp |-> << >>]]
              ELSE /\ state' = [state EXCEPT ![n] = st]
                   /\ round' = [round EXCEPT ![n] =
                         [pc |-> "send", term |-> st.current_term, voted |-> 0,
                          sent |-> 0, outcome |-> "none",
                          resp |-> [s \in 1 .. N |-> NoChan]]]
    /\ UNCHANGED <<servers, nodes, mailbox, alive, vote_waiting, last, sent>>

\* One iteration of `for node in &nodes`: create the oneshot channel, push
\* its receiver, node.send(cmd).await.
RoundSend(n) ==
    /\ round[n].pc = "send"
    /\ LET s == round[n].sent + 1
           peer == nodes[n][s]
           req == [term |-> round[n].term, candidate_id |-> n]
           pc == IF s = Len(nodes[n]) THEN "recv" ELSE "send"
       IN  IF alive[peer]
           THEN /\ Len(mailbox[peer]) < ChannelCap
                /\ mailbox' = [mailbox EXCEPT ![peer] = Append(@, VoteCmd(req, s))]
                /\ round' = [round EXCEPT ![n].sent = s, ![n].pc = pc,
                                          ![n].resp[s] = Pending]
           ELSE /\ mailbox' = mailbox
                /\ round' = [round EXCEPT ![n].sent = s, ![n].pc = pc,
                                          ![n].resp[s] = Closed]
    /\ UNCHANGED <<servers, nodes, state, alive, rv_waiting, vote_waiting,
                   granted, last, sent>>

\* One iteration of `while let Some(result) = receivers.next().await`, and
\* after the last one the quorum test.
RoundRecv(n, s) ==
    /\ round[n].pc = "recv"
    /\ s \in DOMAIN round[n].resp
    /\ round[n].resp[s].st \in {"ok", "err"}
    /\ LET ch == round[n].resp[s]
           resp == [term |-> ch.term, vote_granted |-> ch.vote_granted]
           left == [round[n].resp EXCEPT ![s] = Taken(ch)]
           N == Len(nodes[n])
       IN  IF ch.st = "ok" /\ HigherTerm(resp, state[n])
           THEN /\ state' = [state EXCEPT ![n] = StepDown(@, resp)]
                /\ round' = [round EXCEPT ![n].pc = "idle",
                                          ![n].outcome = "abandoned",
                                          ![n].resp = left]
           ELSE LET voted == IF ch.st = "ok" THEN Tally(round[n].voted, resp)
                                             ELSE ErrArm(round[n].voted)
                IN  IF AllTaken(left)
                    THEN /\ state' = [state EXCEPT ![n] = Conclude(@, voted, N)]
                         /\ round' = [round EXCEPT ![n].pc = "idle",
                                                   ![n].voted = voted,
                                                   ![n].outcome = Outcome(voted, N),
                                                   ![n].resp = left]
                    ELSE /\ state' = state
                         /\ round' = [round EXCEPT ![n].voted = voted,
                                                   ![n].resp = left]
    /\ UNCHANGED <<servers, nodes, mailbox, alive, rv_waiting, vote_waiting,
                   granted, last, sent>>

\* ------------------------------------------------------------ Vote handler
\* The task spawned for Command::Vote: process_vote_request under the lock,
\* then resp.send(res), whose error (receiver dropped) is ignored.
Vote(n, m) ==
    /\ m \in vote_waiting[n]
    /\ ~Locked(n)
    /\ LET req == [term |-> m.term, candidate_id |-> m.candidate_id]
           r == process_vote_request(state[n], req)
           c == m.candidate_id
       IN  /\ state' = [state EXCEPT ![n] = r.state]
           /\ granted' = [granted EXCEPT ![n] =
                 IF r.resp.vote_granted THEN @ \cup {<<req.term, c>>} ELSE @]
           /\ round' = IF Awaited(c, m.term, m.slot)
                       THEN [round EXCEPT ![c].resp[m.slot] = Ready(r.resp)]
                       ELSE round
           /\ last' = [op |-> "vote", node |-> n, slot |-> m.slot, pre |-> state[n],
                       request |-> req, resp |-> r.resp]
    /\ vote_waiting' = [vote_waiting EXCEPT ![n] = @ \ {m}]
    /\ UNCHANGED <<servers, nodes, mailbox, alive, rv_waiting, sent>>

Next ==
    \E n \in Node :
        \/ SendRequestVote(n)
        \/ SendShutDown(n)
        \/ start(n)
        \/ RoundStart(n)
        \/ RoundSend(n)
        \/ \E s \in 1 .. NumNodes : RoundRecv(n, s)
        \/ \E m \in vote_waiting[n] : Vote(n, m)

Spec == Init /\ [][Next]_vars

\* The tokio runtime keeps polling every task that can make progress: the
\* start loop and the spawned tasks of each server are weakly fair.
NodeStep(n) ==
    \/ start(n)
    \/ RoundStart(n)
    \/ RoundSend(n)
    \/ \E s \in 1 .. NumNodes : RoundRecv(n, s)
    \/ \E m \in vote_waiting[n] : Vote(n, m)

FairSpec == Spec /\ \A n \in Node : WF_vars(NodeStep(n))

\* ================================================================ claims
\* A process_vote_request call has just returned on node n.
VoteReturned(n) == last' # last /\ last'.op = "vote" /\ last'.node = n

GrantCount(resp) ==
    Cardinality({s \in DOMAIN resp : resp[s].st = "okTaken" /\ resp[s].vote_granted})

\* C1: a node never grants its vote (self-vote included) to two different
\* candidates in the same term.
VoteUniqueness ==
    \A n \in Node : \A g1, g2 \in granted[n] : g1[1] = g2[1] => g1[2] = g2[2]

\* C1 witness: a node that has voted in a term has just denied another
\* candidate of that same term.
VoteUniquenessWitness ==
    /\ last.op = "vote"
    /\ ~last.resp.vote_granted
    /\ last.request.term = state[last.node].current_term
    /\ \E c \in Node : /\ c # last.request.candidate_id
                       /\ <<last.request.term, c>> \in granted[last.node]

\* C2 (as claimed): a Leader holds, in its current term, votes from strictly
\* more than half of the cluster (its peers plus itself), its self-vote
\* counted with the peer grants it tallied in that term.
LeaderHasMajority ==
    \A n \in servers :
        state[n].election_state = Leader =>
            /\ round[n].term = state[n].current_term
            /\ 2 * (round[n].voted + 1) > Len(nodes[n]) + 1

\* C3 (as claimed): a request with a higher term leaves the node a Follower
\* of that term that voted for the candidate, and is answered with a grant
\* for that term.
StepDownOnHigherTermRequest ==
    [][\A n \in Node :
        (VoteReturned(n) /\ last'.request.term > state[n].current_term) =>
            /\ state'[n] = [election_state |-> Follower,
                            current_term |-> last'.request.term,
                            voted_for |-> Some(last'.request.candidate_id)]
            /\ last'.resp = [term |-> last'.request.term, vote_granted |-> TRUE]
      ]_vars

\* C4: the first response with a higher term ends the round with the node a
\* Follower of that term; as long as no new round starts the node stays
\* Follower and the round's record no longer changes.
StepDownOnHigherTermResponse ==
    [][\A n \in Node :
        /\ \A s \in DOMAIN round[n].resp :
             ( /\ round[n].pc = "recv"
               /\ round[n].resp[s].st = "ok"
               /\ round'[n].resp[s].st = "okTaken"
               /\ round[n].resp[s].term > state[n].current_term ) =>
                    /\ state'[n].election_state = Follower
                    /\ state'[n].current_term = round[n].resp[s].term
                    /\ round'[n].pc = "idle"
                    /\ round'[n].outcome = "abandoned"
        /\ (round[n].outcome = "abandoned" /\ round'[n].outcome = "abandoned") =>
                    /\ round'[n] = round[n]
                    /\ state'[n].election_state = Follower
                    /\ state'[n] # state[n] => VoteReturned(n)
      ]_vars

\* C4 witness: a round was abandoned after grants had been tallied.
StepDownOnHigherTermResponseWitness ==
    \E n \in Node : round[n].outcome = "abandoned" /\ round[n].voted > 0

\* C5 (as claimed): every election round that has started eventually ends.
RoundCompletes ==
    \A n \in Node : (round[n].pc # "idle") ~> (round[n].pc = "idle")

\* C6: current_term starts at 0 and no step ever decreases it.
TermMonotonic ==
    /\ \A n \in Node : state[n].current_term = 0
    /\ [][\A n \in Node : state'[n].current_term >= state[n].current_term]_vars

\* C6 witness: a node's term has moved past the term it last campaigned
\* for, by a newer request or response.
TermMonotonicWitness ==
    \E n \in Node : round[n].term > 0 /\ state[n].current_term > round[n].term

\* C7: a round in which no response carries a higher term ends with the
\* node Leader if the granting responses number at least N / 2, Candidate
\* otherwise, in the term it campaigned for.
QuorumCorrectness ==
    [][\A n \in Node :
        ( /\ round'[n] # round[n]
          /\ round'[n].pc = "idle"
          /\ \A s \in DOMAIN round'[n].resp :
                round'[n].resp[s].st = "okTaken" =>
                    round'[n].resp[s].term <= round'[n].term ) =>
            /\ state'[n].current_term = round'[n].term
            /\ state'[n].election_state =
                  IF GrantCount(round'[n].resp) >= Len(nodes[n]) \div 2
                  THEN Leader ELSE Candidate
      ]_vars

\* C7 witness: node 0 asked NumNodes - 1 fresh peers, all granted, and it
\* is Leader of term 1.
QuorumCorrectnessWitness ==
    /\ Len(nodes[0]) = NumNodes - 1
    /\ round[0].pc = "idle"
    /\ GrantCount(round[0].resp) = NumNodes - 1
    /\ state[0].election_state = Leader
    /\ state[0].current_term = 1

\* C8 (as claimed): every reply carries the responder's term after the call;
\* a same-term request for another candidate is denied with the request's
\* term and changes nothing.
ReplyCarriesCurrentTerm ==
    [][\A n \in Node :
        VoteReturned(n) =>
            /\ last'.resp.term = state'[n].current_term
            /\ ( /\ last'.request.term = state[n].current_term
                 /\ state[n].voted_for # None
                 /\ last'.request.candidate_id \notin state[n].voted_for ) =>
                    /\ last'.resp = [term |-> last'.request.term,
                                     vote_granted |-> FALSE]
                    /\ state'[n] = state[n]
      ]_vars

\* C9: a request with a term below the node's is denied with the node's
\* term and changes nothing; no grant is ever for a term below the node's.
StaleRequestDenied ==
    [][\A n \in Node :
        VoteReturned(n) =>
            /\ last'.request.term < state[n].current_term =>
                    /\ last'.resp = [term |-> state[n].current_term,
                                     vote_granted |-> FALSE]
                    /\ state'[n] = state[n]
            /\ last'.resp.vote_granted =>
                    last'.request.term >= state[n].current_term
      ]_vars

\* C9 witness: a stale request has just been handled.
StaleRequestDeniedWitness ==
    last.op = "vote" /\ last.request.term < last.pre.current_term

\* C10: a request for the candidate the node already voted for in that term
\* is granted again with the request's term and changes nothing.
IdempotentRegrant ==
    [][\A n \in Node :
        ( /\ VoteReturned(n)
          /\ last'.request.term = state[n].current_term
          /\ state[n].voted_for = Some(last'.request.candidate_id) ) =>
            /\ last'.resp = [term |-> last'.request.term, vote_granted |-> TRUE]
            /\ state'[n] = state[n]
      ]_vars

\* C10 witness: the same request was delivered again to a node that had
\* already voted for its candidate in its term.
IdempotentRegrantWitness ==
    /\ last.op = "vote"
    /\ last.request.term = last.pre.current_term
    /\ last.pre.voted_for = Some(last.request.candidate_id)
    /\ last.resp.vote_granted

\* C11 (as claimed): a recorded voted_for is a vote the node granted in its
\* current term; a step that advances current_term on seeing a newer term
\* clears voted_for or replaces it by the candidate voted for in that term.
VotedForIsCurrent ==
    \A n \in Node :
        \A c \in state[n].voted_for : <<state[n].current_term, c>> \in granted[n]

\* C12: consuming a reply channel that closed without a response leaves the
\* granted-vote counter and the node's term alone and does not abandon the
\* round; if it was the last outstanding slot the round ends on the N / 2
\* threshold over the grants tallied from the other peers.
NoResponseIsNeutral ==
    [][\A n \in Node : \A s \in DOMAIN round[n].resp :
        ( /\ round[n].pc = "recv"
          /\ round[n].resp[s].st = "err"
          /\ round'[n].resp[s].st = "errTaken" ) =>
            /\ round'[n].voted = round[n].voted
            /\ round'[n].outcome # "abandoned"
            /\ state'[n].current_term = state[n].current_term
            /\ IF AllTaken(round'[n].resp)
               THEN /\ round'[n].pc = "idle"
                    /\ state'[n].election_state =
                          IF round[n].voted >= Len(nodes[n]) \div 2
                          THEN Leader ELSE Candidate
               ELSE /\ round'[n].pc = "recv"
                    /\ state'[n] = state[n]
      ]_vars

\* C12 witness: a round ended on the responses of the other peer after one
\* peer's channel had closed without a response.
NoResponseIsNeutralWitness ==
    \E n \in Node : \E s1, s2 \in DOMAIN round[n].resp :
        /\ round[n].pc = "idle"
        /\ round[n].outcome \in {"won", "lost"}
        /\ round[n].resp[s1].st = "errTaken"
        /\ round[n].resp[s2].st = "okTaken"

\* C13: every server starts as a Follower in term 0 with no vote recorded,
\* and leaves that state only in a step that starts a round on it or that
\* returns from process_vote_request on it.
FreshUntilFirstUse ==
    /\ \A n \in Node :
         state[n] = [election_state |-> "Follower", current_term |-> 0,
                     voted_for |-> {}]
    /\ [][\A n \in Node :
            ( /\ state[n] = [election_state |-> "Follower", current_term |-> 0,
                             voted_for |-> {}]
              /\ state'[n] # state[n] ) =>
                \/ /\ rv_waiting'[n] = rv_waiting[n] - 1
                   /\ round'[n].term = 1
                \/ VoteReturned(n)
         ]_vars

\* C13 witness: a started server is still in its initial state although a
\* RequestVote and a Vote command for it are already queued or spawned.
FreshUntilFirstUseWitness ==
    \E n \in servers :
        /\ state[n] = [election_state |-> "Follower", current_term |-> 0,
                       voted_for |-> {}]
        /\ rv_waiting[n] > 0
        /\ vote_waiting[n] # {}

\* A request_vote task has just taken the lock on node n.
RoundStarted(n) == rv_waiting'[n] = rv_waiting[n] - 1

\* C14: starting a round adds exactly 1 to current_term and records the
\* self-vote in the same step, with the role Candidate (a node without peers
\* passes through Candidate to the quorum test inside that step); each
\* entry of the peer list is then sent one VoteRequest carrying the new term
\* and the node's id, and no reply is consumed before all are sent.
RoundStartStep ==
    [][\A n \in Node :
        /\ RoundStarted(n) =>
             /\ state'[n].current_term = state[n].current_term + 1
             /\ state'[n].voted_for = {n}
             /\ round'[n].term = state'[n].current_term
             /\ round'[n].sent = 0
             /\ state'[n].election_state =
                   IF Len(nodes[n]) > 0 THEN "Candidate" ELSE "Leader"
        /\ round'[n].sent # round[n].sent /\ ~RoundStarted(n) =>
             LET s == round'[n].sent
                 peer == nodes[n][s]
             IN  /\ s = round[n].sent + 1
                 /\ round'[n].pc = IF s = Len(nodes[n]) THEN "recv" ELSE "send"
                 /\ state'[n] = state[n]
                 /\ alive[peer] =>
                      mailbox'[peer] = Append(mailbox[peer],
                          [type |-> "Vote", term |-> state[n].current_term,
                           candidate_id |-> n, slot |-> s])
                 /\ \A p \in Node \ {peer} : mailbox'[p] = mailbox[p]
        /\ (\E s \in DOMAIN round[n].resp :
                round'[n].resp[s].st \in {"okTaken", "errTaken"}
                /\ round[n].resp[s].st \notin {"okTaken", "errTaken"}) =>
             round[n].sent = Len(nodes[n])
      ]_vars

\* C14 witness: a node whose first round is over has started another one:
\* term 2, all requests sent, no reply consumed yet.
RoundStartStepWitness ==
    \E n \in Node :
        /\ round[n].pc = "recv"
        /\ round[n].term = 2
        /\ Len(nodes[n]) = 2
        /\ \A s \in DOMAIN round[n].resp : round[n].resp[s].st = "pending"
        /\ state[n] = [election_state |-> "Candidate", current_term |-> 2,
                       voted_for |-> {n}]

Consumed(rd) == {s \in DOMAIN rd.resp : rd.resp[s].st = "okTaken"}
HigherIn(rd) == {s \in Consumed(rd) : rd.resp[s].term > rd.term}
GrantsIn(rd) == {s \in Consumed(rd) : rd.resp[s].vote_granted}

\* C16: the result of a round is a function of the responses it consumed,
\* not of their order.  At every point the counter equals the number of
\* granting responses consumed; a round that ends without a higher-term
\* response ends Leader or Candidate by that number alone, in its own term;
\* a round that consumed a higher-term response consumed exactly one, ended
\* there, and left the node Follower in that response's term.
TallyOrderIndependent ==
    [][\A n \in Node :
        LET rd == round'[n]
            N == Len(nodes[n])
        IN  rd # round[n] =>
              /\ HigherIn(rd) = {} => rd.voted = Cardinality(GrantsIn(rd))
              /\ (rd.pc = "idle" /\ HigherIn(rd) = {}) =>
                    /\ state'[n].current_term = rd.term
                    /\ state'[n].election_state =
                          IF Cardinality(GrantsIn(rd)) >= N \div 2
                          THEN "Leader" ELSE "Candidate"
              /\ HigherIn(rd) # {} =>
                    /\ Cardinality(HigherIn(rd)) = 1
                    /\ rd.pc = "idle"
                    /\ state'[n].election_state = "Follower"
                    /\ \E s \in HigherIn(rd) :
                          state'[n].current_term = rd.resp[s].term
      ]_vars

\* C16 witness: a round ended as Leader after consuming one grant and one
\* denial, which could arrive in either order.
TallyOrderIndependentWitness ==
    \E n \in Node : \E s1, s2 \in DOMAIN round[n].resp :
        /\ round[n].pc = "idle"
        /\ round[n].outcome = "won"
        /\ round[n].resp[s1].st = "okTaken" /\ round[n].resp[s1].vote_granted
        /\ round[n].resp[s2].st = "okTaken" /\ ~round[n].resp[s2].vote_granted
        /\ round[n].voted = 1

\* C17 (as claimed): a server keeps answering vote requests while it
\* campaigns: every Vote task that was spawned eventually gets the lock and
\* replies.
VoteRequestsAnswered ==
    \A n \in Node : (vote_waiting[n] # {}) ~> (vote_waiting[n] = {})

\* Every server's peer list is all the other servers.
FullMesh ==
    \A n \in servers :
        {nodes[n][i] : i \in DOMAIN nodes[n]} = servers \ {n}

\* C18 (as claimed): in a fully connected cluster no two servers are Leader
\* in the same term.
ElectionSafety ==
    FullMesh =>
        \A a, b \in servers :
            ( /\ state[a].election_state = "Leader"
              /\ state[b].election_state = "Leader"
              /\ state[a].current_term = state[b].current_term ) => a = b

\* C19: after a granting reply the node's voted_for is the request's
\* candidate, its current_term the request's term, and the reply carries
\* that term; a denying reply leaves voted_for and current_term as they were.
GrantReflectsVote ==
    [][\A n \in Node :
        VoteReturned(n) =>
            IF last'.resp.vote_granted
            THEN /\ state'[n].voted_for = {last'.request.candidate_id}
                 /\ state'[n].current_term = last'.request.term
                 /\ last'.resp.term = last'.request.term
            ELSE /\ state'[n].voted_for = state[n].voted_for
                 /\ state'[n].current_term = state[n].current_term
      ]_vars

\* C19 witness: a grant has just replaced the vote a node had recorded for
\* another candidate in an older term.
GrantReflectsVoteWitness ==
    /\ last.op = "vote"
    /\ last.resp.vote_granted
    /\ last.pre.voted_for # {}
    /\ last.pre.voted_for # {last.request.candidate_id}
    /\ state[last.node].voted_for = {last.request.candidate_id}

\* C20: while a round is in progress on a node, no process_vote_request
\* returns on it and no other round starts on it; its State changes only
\* when the round consumes a reply, and current_term stays the term the
\* round campaigns for, so that is the term every reply is compared with.
RoundExcludesHandlers ==
    [][\A n \in Node :
        round[n].pc # "idle" =>
            /\ ~VoteReturned(n)
            /\ ~RoundStarted(n)
            /\ round'[n].term = round[n].term
            /\ state[n].current_term = round[n].term
            /\ state'[n] # state[n] =>
                  \E s \in DOMAIN round[n].resp :
                      /\ round[n].resp[s].st \in {"ok", "err"}
                      /\ round'[n].resp[s].st \in {"okTaken", "errTaken"}
      ]_vars

\* C20 witness: a round is awaiting replies while a Vote task and a second
\* request_vote task are waiting for the same node's lock.
RoundExcludesHandlersWitness ==
    \E n \in Node :
        /\ round[n].pc = "recv"
        /\ vote_waiting[n] # {}
        /\ rv_waiting[n] > 0
====
